---- MODULE Spec2Model ----
(***************************************************************************)
(* A state-machine model of the SolanaM image studio extension:            *)
(*   - CropManager (percentage crop rectangle, overlay, drag and resize),  *)
(*   - CompressionManager (format catalog, encoder arguments, accounting), *)
(*   - FileHandler (upload validation),                                    *)
(*   - FilterManager (CSS filter chain),                                   *)
(*   - ImageProcessor (the orchestrator that wires them to the DOM).       *)
(*                                                                         *)
(* Numbers.  Percentages, pixels and byte counts are integers.  The sample *)
(* pointer positions are chosen so that (delta / offsetWidth) * 100 is a   *)
(* whole number, which makes the integer arithmetic below agree with the   *)
(* floating point arithmetic of the code on every value that occurs.       *)
(* Pixel quantities that the code leaves fractional (a crop percentage of  *)
(* a natural size) are carried in hundredths of a pixel.                   *)
(***************************************************************************)
EXTENDS Integers, Sequences, FiniteSets, TLC

VARIABLES
    cropSettings,   \* CropManager.cropSettings
    overlay,        \* TRUE iff a .crop-overlay (with its crop box) is in the DOM
    drag,           \* closure state of the crop box's listeners (addCropInteractivity)
    cropEvent,      \* detail of the 'cropUpdate' event the last handler dispatched, or NoEvent
    gestures,       \* number of pointer-downs so far (bounded by MaxGestures)
    probe,          \* what the last step was called with and what it returned, or NoProbe
    lastOp,         \* name of the handler or method that ran last
    currentImage,   \* ImageProcessor.currentImage: Null or the loaded image's natural size
    currentFile,    \* ImageProcessor.currentFile: Null or the uploaded file
    compressionResult, \* ImageProcessor.compressionResult: Null or the held outcome
    isCropEnabled,  \* ImageProcessor.isCropEnabled
    dom,            \* the controls of the rendered page: slider values, active buttons, styles
    upload,         \* the handleFileUpload invocation in progress, or NoUpload
    pending,        \* the updateCompression invocations in flight, oldest first
    timers,         \* number of setTimeout(() => updateCompression, 100) callbacks not yet run
    toast,          \* the toast the last step showed, or NoToast
    context,        \* progress of checkForContextImage / loadContextImage, or NoContext
    storage,        \* chrome.storage.local of the background script
    clock,          \* Date.now() in the background script, in ms
    request,        \* the getContextImage message the background is serving, or NoRequest
    log             \* imports stored and getContextImage answers sent, oldest first

appVars ==
    <<currentImage, currentFile, compressionResult, isCropEnabled, dom, upload, pending,
      timers, toast>>

bgVars == <<storage, clock, request, log>>
extVars == <<context, storage, clock, request, log>>

vars ==
    <<cropSettings, overlay, drag, cropEvent, gestures, probe, lastOp,
      currentImage, currentFile, compressionResult, isCropEnabled, dom, upload, pending,
      timers, toast, context, storage, clock, request, log>>

(***************************************************************************)
(* Bounds and sample inputs                                                *)
(***************************************************************************)
MaxGestures == 1
MaxPending == 1
MaxTimers == 1

\* The displayed preview image (previewImage.offsetWidth / offsetHeight), in px.
PreviewSize == [offsetWidth |-> 200, offsetHeight |-> 200]

\* Pointer position at pointer-down and the positions later moves report.
DownPosition == [clientX |-> 100, clientY |-> 100]
ClientCoords == {0, 60, 100, 200}

\* Values of the crop range inputs (Left/Top: min 0 max 50, Width/Height: min 10 max 100).
SliderOffsets == {0, 50}
SliderSizes == {50, 100}

Handles == {"nw", "ne", "sw", "se", "n", "s", "w", "e"}

NoEvent == "none"
NoProbe == [fn |-> "none"]
Null == [null |-> TRUE]
NoUpload == [stage |-> "none"]
NoToast == [kind |-> "none"]
NoContext == [stage |-> "none"]
NoRequest == [stage |-> "none"]
EmptyStorage == [stored |-> FALSE]

Max(a, b) == IF a >= b THEN a ELSE b
Min(a, b) == IF a <= b THEN a ELSE b

(***************************************************************************)
(* CropManager                                                             *)
(***************************************************************************)
DefaultCrop == [x |-> 0, y |-> 0, width |-> 100, height |-> 100, enabled |-> FALSE]

IdleDrag ==
    [isDragging |-> FALSE, isResizing |-> FALSE, currentHandle |-> "",
     startX |-> 0, startY |-> 0,
     startCropX |-> 0, startCropY |-> 0, startCropWidth |-> 0, startCropHeight |-> 0]

\* { ...this.cropSettings, ...settings }: the fields of the partial replace the current ones.
MergeSettings(cur, partial) ==
    [f \in DOMAIN cur |-> IF f \in DOMAIN partial THEN partial[f] ELSE cur[f]]

\* The partial settings the orchestrator passes: toggleCrop passes the flag
\* alone, updateCrop the four slider values with enabled: true.
TogglePartials == {[enabled |-> b] : b \in BOOLEAN}
SliderPartials ==
    [x : SliderOffsets, y : SliderOffsets,
     width : SliderSizes, height : SliderSizes, enabled : {TRUE}]

\* (delta / imageSize) * 100
DeltaPercent(delta, imageSize) == (delta * 100) \div imageSize

\* The body-drag branch of the mousemove handler.
MovedBoxFromCurrent(cur, d, dxp, dyp) ==
    [x |-> Max(0, Min(100 - cur.width, cur.x + dxp)),
     y |-> Max(0, Min(100 - cur.height, cur.y + dyp))]

MovedBox(cur, d, dxp, dyp) ==
    [x |-> Max(0, Min(100 - cur.width, d.startCropX + dxp)),
     y |-> Max(0, Min(100 - cur.height, d.startCropY + dyp))]

\* The switch over currentHandle in the mousemove handler: newSettings starts
\* as a copy of the current settings and the case assigns some of its fields.
GrowRightUnclamped(d, dxp) == Max(10, d.startCropWidth + dxp)
GrowRight(d, dxp) == Max(10, Min(100 - d.startCropX, d.startCropWidth + dxp))
GrowDown(d, dyp) == Max(10, Min(100 - d.startCropY, d.startCropHeight + dyp))
GrowLeftWidth(d, dxp) == Max(10, d.startCropWidth - dxp)
GrowUpHeight(d, dyp) == Max(10, d.startCropHeight - dyp)
GrowLeftX(d, dxp) == Max(0, d.startCropX + (d.startCropWidth - GrowLeftWidth(d, dxp)))
GrowUpY(d, dyp) == Max(0, d.startCropY + (d.startCropHeight - GrowUpHeight(d, dyp)))

Resized(cur, d, dxp, dyp) ==
    CASE d.currentHandle = "se" ->
            [cur EXCEPT !.width = GrowRight(d, dxp), !.height = GrowDown(d, dyp)]
      [] d.currentHandle = "nw" ->
            [cur EXCEPT !.x = GrowLeftX(d, dxp), !.y = GrowUpY(d, dyp),
                        !.width = GrowLeftWidth(d, dxp), !.height = GrowUpHeight(d, dyp)]
      [] d.currentHandle = "ne" ->
            [cur EXCEPT !.width = GrowRight(d, dxp),
                        !.y = GrowUpY(d, dyp), !.height = GrowUpHeight(d, dyp)]
      [] d.currentHandle = "sw" ->
            [cur EXCEPT !.x = GrowLeftX(d, dxp), !.width = GrowLeftWidth(d, dxp),
                        !.height = GrowDown(d, dyp)]
      [] d.currentHandle = "n" ->
            [cur EXCEPT !.y = GrowUpY(d, dyp), !.height = GrowUpHeight(d, dyp)]
      [] d.currentHandle = "s" ->
            [cur EXCEPT !.height = GrowDown(d, dyp)]
      [] d.currentHandle = "w" ->
            [cur EXCEPT !.x = GrowLeftX(d, dxp), !.width = GrowLeftWidth(d, dxp)]
      [] d.currentHandle = "e" ->
            [cur EXCEPT !.width = GrowRight(d, dxp)]
      [] OTHER -> cur

\* The settings the mousemove handler stores for a pointer at (clientX, clientY).
AfterMouseMove(cur, d, clientX, clientY) ==
    LET dxp == DeltaPercent(clientX - d.startX, PreviewSize.offsetWidth)
        dyp == DeltaPercent(clientY - d.startY, PreviewSize.offsetHeight)
    IN  IF d.isDragging
        THEN MergeSettings(cur, MovedBox(cur, d, dxp, dyp))
        ELSE MergeSettings(cur, Resized(cur, d, dxp, dyp))

\* resetCrop()
ResetCropKeepsEnabled == [DefaultCrop EXCEPT !.enabled = cropSettings.enabled]
ResetCropValue == DefaultCrop

----
\* setCropSettings(partial), called by a client of the CropManager.
SetCropSettings(partial) ==
    /\ cropSettings' = MergeSettings(cropSettings, partial)
    /\ lastOp' = "setCropSettings"
    /\ cropEvent' = NoEvent
    /\ UNCHANGED <<overlay, drag, gestures, probe>>
    /\ UNCHANGED <<appVars, extVars>>

\* applyCropOverlay(previewImage): the old overlay goes; a new one (with a new
\* crop box) is built only when cropping is enabled.  The listeners of an old
\* box stay on the document, so a drag in progress keeps its closure state.
ApplyCropOverlay ==
    /\ overlay' = cropSettings.enabled
    /\ lastOp' = "applyCropOverlay"
    /\ cropEvent' = NoEvent
    /\ UNCHANGED <<cropSettings, drag, gestures, probe>>
    /\ UNCHANGED <<appVars, extVars>>

\* mousedown on the crop box (target "box") or on one of its eight handles.
MouseDown(target) ==
    /\ overlay
    /\ gestures < MaxGestures
    /\ gestures' = gestures + 1
    /\ drag' = [isDragging |-> IF target \in Handles THEN drag.isDragging ELSE TRUE,
                isResizing |-> IF target \in Handles THEN TRUE ELSE drag.isResizing,
                currentHandle |-> IF target \in Handles THEN target ELSE drag.currentHandle,
                startX |-> DownPosition.clientX,
                startY |-> DownPosition.clientY,
                startCropX |-> cropSettings.x,
                startCropY |-> cropSettings.y,
                startCropWidth |-> cropSettings.width,
                startCropHeight |-> cropSettings.height]
    /\ lastOp' = "mousedown"
    /\ cropEvent' = NoEvent
    /\ UNCHANGED <<cropSettings, overlay, probe>>
    /\ UNCHANGED <<appVars, extVars>>

\* mousemove on the document while a drag or a resize is in progress.
MouseMove(clientX, clientY) ==
    /\ drag.isDragging \/ drag.isResizing
    /\ cropSettings' = AfterMouseMove(cropSettings, drag, clientX, clientY)
    /\ cropEvent' = cropSettings'
    /\ lastOp' = "mousemove"
    /\ UNCHANGED <<overlay, drag, gestures, probe>>
    /\ UNCHANGED <<appVars, extVars>>

\* mouseup on the document.
MouseUp ==
    /\ drag.isDragging \/ drag.isResizing
    /\ drag' = [drag EXCEPT !.isDragging = FALSE, !.isResizing = FALSE,
                            !.currentHandle = ""]
    /\ lastOp' = "mouseup"
    /\ cropEvent' = NoEvent
    /\ UNCHANGED <<cropSettings, overlay, gestures, probe>>
    /\ UNCHANGED <<appVars, extVars>>

\* resetCrop()
ResetCrop ==
    /\ cropSettings' = ResetCropValue
    /\ lastOp' = "resetCrop"
    /\ cropEvent' = NoEvent
    /\ UNCHANGED <<overlay, drag, gestures, probe>>
    /\ UNCHANGED <<appVars, extVars>>

\* The controls as render() builds them.
InitialDom ==
    [cropLeft |-> 0, cropTop |-> 0, cropWidth |-> 100, cropHeight |-> 100,
     brightness |-> 100, contrast |-> 100, saturation |-> 100, blur |-> 0,
     quality |-> 85,
     activeFilter |-> "none", activeFormat |-> "jpeg",
     qualityDisabled |-> FALSE,
     styleFilter |-> <<>>,
     imageSectionShown |-> FALSE, cropControlsShown |-> FALSE]

\* The state after new ImageProcessor() and render(); ctx is what the
\* constructor's checkForContextImage() has started.
Constructed(ctx) ==
    /\ cropSettings = DefaultCrop
    /\ overlay = FALSE
    /\ drag = IdleDrag
    /\ cropEvent = NoEvent
    /\ gestures = 0
    /\ probe = NoProbe
    /\ lastOp = "init"
    /\ currentImage = Null
    /\ currentFile = Null
    /\ compressionResult = Null
    /\ isCropEnabled = FALSE
    /\ dom = InitialDom
    /\ upload = NoUpload
    /\ pending = <<>>
    /\ timers = 0
    /\ toast = NoToast
    /\ context = ctx
    /\ storage = EmptyStorage
    /\ clock = 0
    /\ request = NoRequest
    /\ log = <<>>

\* The page opened outside an extension context: there is no chrome.runtime,
\* so checkForContextImage() does nothing.
Init == Constructed(NoContext)

\* A slider is moved with the pointer, which a drag in progress keeps busy.
PointerDown == drag.isDragging \/ drag.isResizing

CropNext ==
    \/ \E p \in TogglePartials : SetCropSettings(p)
    \/ \E p \in SliderPartials : ~PointerDown /\ SetCropSettings(p)
    \/ ApplyCropOverlay
    \/ \E t \in Handles \cup {"box"} : MouseDown(t)
    \/ \E cx \in ClientCoords, cy \in ClientCoords : MouseMove(cx, cy)
    \/ MouseUp
    \/ ResetCrop

\* The CropManager driven by a client that calls its public methods and by the
\* pointer events of its overlay.
SpecCrop == Init /\ [][CropNext]_vars

\* One drag at a time with nothing else going on: the client sets the
\* rectangle and the overlay while the pointer is up, and between
\* pointer-down and pointer-up only the pointer events happen.
DragNext ==
    \/ \E p \in TogglePartials \cup SliderPartials : ~PointerDown /\ SetCropSettings(p)
    \/ ~PointerDown /\ ApplyCropOverlay
    \/ \E t \in Handles \cup {"box"} : MouseDown(t)
    \/ \E cx \in ClientCoords, cy \in ClientCoords : MouseMove(cx, cy)
    \/ MouseUp

SpecDrag == Init /\ [][DragNext]_vars

(***************************************************************************)
(* Properties of the CropManager                                           *)
(***************************************************************************)
\* The six bounds of a crop rectangle.
ValidRect(x, y, width, height) ==
    /\ x >= 0 /\ y >= 0 /\ width >= 10 /\ height >= 10
    /\ x + width <= 100 /\ y + height <= 100

StartedValid ==
    ValidRect(drag.startCropX, drag.startCropY, drag.startCropWidth, drag.startCropHeight)

\* C1: when the rectangle satisfied the six bounds at pointer-down, the
\* rectangle stored by a pointer-move update of a body drag or of a resize
\* with any handle still satisfies x>=0, y>=0, width>=10, height>=10,
\* x+width<=100 and y+height<=100.
C1_DragKeepsBounds ==
    (lastOp = "mousemove" /\ StartedValid)
        => ValidRect(cropSettings.x, cropSettings.y, cropSettings.width, cropSettings.height)

\* C9: resetCrop leaves the rectangle at exactly {0, 0, 100, 100, false},
\* whatever it was before, also after out-of-range merges and during a drag.
C9_ResetRestoresDefault ==
    lastOp = "resetCrop"
        => cropSettings = [x |-> 0, y |-> 0, width |-> 100, height |-> 100, enabled |-> FALSE]

\* resetCrop ran while a drag that began on an out-of-range rectangle was going on.
C9_Witness ==
    /\ lastOp = "resetCrop"
    /\ PointerDown
    /\ ~StartedValid
    /\ cropSettings = DefaultCrop

(***************************************************************************)
(* CropManager.applyCrop                                                   *)
(***************************************************************************)
\* Natural sizes of source images, in px.
SourceSizes == {[naturalWidth |-> 200, naturalHeight |-> 200],
                [naturalWidth |-> 15, naturalHeight |-> 10]}

\* The rectangle of the worked example, next to the slider rectangles.
ExamplePartials ==
    {[x |-> 25, y |-> 25, width |-> 50, height |-> 50, enabled |-> TRUE]}

\* (percent / 100) * natural, in hundredths of a pixel.
PercentOf(percent, natural) == percent * natural

\* canvas.width = v and canvas.height = v: the attribute is an unsigned long,
\* so a fractional number of pixels loses its fraction.
CanvasDimension(hundredths) == hundredths \div 100

\* croppedWidth / croppedHeight of the returned CropResult, in hundredths of a pixel.
CroppedExtent(hundredths) == hundredths

\* canvas.toDataURL(): a canvas with no pixels gives "data:,".
ToDataURL(width, height) ==
    IF width = 0 \/ height = 0 THEN "data:," ELSE "data:image/png"

\* applyCrop(sourceImage).  drawn is the drawImage call: the source rectangle
\* (s*) and the destination rectangle (d*), in hundredths of a pixel.
ApplyCrop(settings, source) ==
    IF ~settings.enabled
    THEN [canvas |-> [width |-> source.naturalWidth, height |-> source.naturalHeight],
          drawn |-> [sx |-> 0, sy |-> 0,
                     sw |-> source.naturalWidth * 100, sh |-> source.naturalHeight * 100,
                     dx |-> 0, dy |-> 0,
                     dw |-> source.naturalWidth * 100, dh |-> source.naturalHeight * 100],
          dataUrl |-> ToDataURL(source.naturalWidth, source.naturalHeight),
          croppedWidth |-> source.naturalWidth * 100,
          croppedHeight |-> source.naturalHeight * 100]
    ELSE LET cropX == PercentOf(settings.x, source.naturalWidth)
             cropY == PercentOf(settings.y, source.naturalHeight)
             cropWidth == PercentOf(settings.width, source.naturalWidth)
             cropHeight == PercentOf(settings.height, source.naturalHeight)
         IN  [canvas |-> [width |-> CanvasDimension(cropWidth),
                          height |-> CanvasDimension(cropHeight)],
              drawn |-> [sx |-> cropX, sy |-> cropY, sw |-> cropWidth, sh |-> cropHeight,
                         dx |-> 0, dy |-> 0, dw |-> cropWidth, dh |-> cropHeight],
              dataUrl |-> ToDataURL(CanvasDimension(cropWidth), CanvasDimension(cropHeight)),
              croppedWidth |-> CroppedExtent(cropWidth),
              croppedHeight |-> CroppedExtent(cropHeight)]

\* A client calls applyCrop(sourceImage).
ApplyCropCall(source) ==
    /\ probe' = [fn |-> "applyCrop", settings |-> cropSettings, source |-> source,
                 result |-> ApplyCrop(cropSettings, source)]
    /\ lastOp' = "applyCrop"
    /\ cropEvent' = NoEvent
    /\ UNCHANGED <<cropSettings, overlay, drag, gestures>>
    /\ UNCHANGED <<appVars, extVars>>

(***************************************************************************)
(* FileHandler.validateImageFile                                           *)
(***************************************************************************)
maxFileSize == 10 * 1024 * 1024

allowedTypes ==
    {"image/jpeg", "image/jpg", "image/png", "image/webp", "image/gif",
     "image/bmp", "image/tiff", "image/avif", "image/svg+xml", "image/x-icon"}

TypeError == "Please select a valid image file (JPEG, PNG, WebP, GIF, BMP, TIFF)"
SizeError == "File size must be less than 10MB"

\* Files an upload can carry: every allow-listed type and some others, with
\* sizes on both sides of the limit.
FileTypes == allowedTypes \cup {"application/pdf", "image/heic", "text/plain", ""}
FileSizes == {0, 1024, maxFileSize - 1, maxFileSize, maxFileSize + 1, 11 * 1024 * 1024}

ValidateSizeFirst(file) ==
    IF file.size > maxFileSize THEN [valid |-> FALSE, error |-> SizeError]
    ELSE IF file.type \notin allowedTypes THEN [valid |-> FALSE, error |-> TypeError]
    ELSE [valid |-> TRUE]

validateImageFile(file) ==
    IF file.type \notin allowedTypes THEN [valid |-> FALSE, error |-> TypeError]
    ELSE IF file.size > maxFileSize THEN [valid |-> FALSE, error |-> SizeError]
    ELSE [valid |-> TRUE]

ValidateCall(file) ==
    /\ probe' = [fn |-> "validateImageFile", file |-> file, result |-> validateImageFile(file)]
    /\ lastOp' = "validateImageFile"
    /\ cropEvent' = NoEvent
    /\ UNCHANGED <<cropSettings, overlay, drag, gestures>>
    /\ UNCHANGED <<appVars, extVars>>

(***************************************************************************)
(* CompressionManager                                                      *)
(***************************************************************************)
formatMap ==
    [jpeg |-> [extension |-> "jpg", mimeType |-> "image/jpeg", supportsQuality |-> TRUE,
               description |-> "Best for photos"],
     png  |-> [extension |-> "png", mimeType |-> "image/png", supportsQuality |-> FALSE,
               description |-> "Best for graphics"],
     webp |-> [extension |-> "webp", mimeType |-> "image/webp", supportsQuality |-> TRUE,
               description |-> "Modern format"],
     avif |-> [extension |-> "avif", mimeType |-> "image/avif", supportsQuality |-> TRUE,
               description |-> "Next-gen format"],
     bmp  |-> [extension |-> "bmp", mimeType |-> "image/bmp", supportsQuality |-> FALSE,
               description |-> "Uncompressed"],
     tiff |-> [extension |-> "tiff", mimeType |-> "image/tiff", supportsQuality |-> FALSE,
               description |-> "High quality"],
     ico  |-> [extension |-> "ico", mimeType |-> "image/x-icon", supportsQuality |-> FALSE,
               description |-> "Icon format"],
     svg  |-> [extension |-> "svg", mimeType |-> "image/svg+xml", supportsQuality |-> FALSE,
               description |-> "Vector format"]]

\* formatMap is an object literal, so formatMap[format] also finds what every
\* object inherits from Object.prototype.  Each of these values is truthy and
\* has none of the fields of a FormatInfo.
ObjectPrototypeKeys ==
    {"constructor", "toString", "toLocaleString", "valueOf", "hasOwnProperty",
     "isPrototypeOf", "propertyIsEnumerable", "__proto__"}

Inherited(key) == [inheritedFromObjectPrototype |-> key]

Undefined == [undefined |-> TRUE]

\* this.formatMap[format]
FormatMapLookup(format) ==
    IF format \in DOMAIN formatMap THEN formatMap[format]
    ELSE IF format \in ObjectPrototypeKeys THEN Inherited(format)
    ELSE Undefined

\* this.formatMap[format] || this.formatMap.jpeg
getFormatInfo(format) ==
    IF FormatMapLookup(format) # Undefined THEN FormatMapLookup(format) ELSE formatMap.jpeg

\* Format strings: the eight identifiers, unknown names, and names every object inherits.
FormatStrings ==
    DOMAIN formatMap \cup {"foo", "jpg", "JPEG", "gif", ""} \cup {"constructor", "toString"}

GetFormatInfoCall(format) ==
    /\ probe' = [fn |-> "getFormatInfo", format |-> format, result |-> getFormatInfo(format)]
    /\ lastOp' = "getFormatInfo"
    /\ cropEvent' = NoEvent
    /\ UNCHANGED <<cropSettings, overlay, drag, gestures>>
    /\ UNCHANGED <<appVars, extVars>>

\* formatInfo.mimeType, undefined when the value has no such field, and the
\* truth of formatInfo.supportsQuality, where undefined counts as false.
MimeTypeOf(info) == IF "mimeType" \in DOMAIN info THEN info.mimeType ELSE "undefined"
SupportsQuality(info) == "supportsQuality" \in DOMAIN info /\ info.supportsQuality

\* The (type, quality) arguments of canvas.toBlob; quality in hundredths, so
\* that options.quality / 100 is options.quality and 1 is 100.
EncoderArgsAlwaysQuality(options) ==
    [mimeType |-> MimeTypeOf(getFormatInfo(options.format)),
     quality |-> options.quality]

EncoderArgs(options) ==
    LET formatInfo == getFormatInfo(options.format)
    IN  [mimeType |-> MimeTypeOf(formatInfo),
         quality |-> IF SupportsQuality(formatInfo) THEN options.quality ELSE 100]

\* Exact fractions: <<numerator, denominator>> in lowest terms, denominator > 0.
RECURSIVE Gcd(_, _)
Gcd(a, b) == IF b = 0 THEN a ELSE Gcd(b, a % b)
Abs(a) == IF a < 0 THEN -a ELSE a
Fraction(num, den) ==
    LET g == Gcd(Abs(num), den) IN <<num \div g, den \div g>>

\* ((originalSize - blob.size) / originalSize) * 100.  Dividing a negative
\* number by zero gives -Infinity, written <<-1, 0>>, and 0 / 0 gives NaN,
\* written <<0, 0>>.
CompressionRatioOfCompressed(originalSize, blobSize) ==
    IF blobSize = 0
    THEN (IF originalSize = 0 THEN <<0, 0>> ELSE <<1, 0>>)
    ELSE Fraction((originalSize - blobSize) * 100, blobSize)

CompressionRatio(originalSize, blobSize) ==
    IF originalSize = 0
    THEN (IF blobSize = 0 THEN <<0, 0>> ELSE <<-1, 0>>)
    ELSE Fraction((originalSize - blobSize) * 100, originalSize)

\* What the platform does with one compressImage call.
EncoderOutcomes == {"blob", "noContext", "noBlob", "readError"}
Qualities == {10, 85, 100}
OriginalSizes == {0, 1000, 2048}
BlobSizes == {750, 1000, 1200}

\* compressImage(image, options, originalSize): the promise's settlement.
CompressImage(options, originalSize, outcome, blobSize) ==
    IF outcome = "noContext" THEN [rejected |-> "Canvas context not available"]
    ELSE IF outcome = "noBlob" THEN [rejected |-> "Failed to compress image"]
    ELSE IF outcome = "readError" THEN [rejected |-> "Failed to read compressed image"]
    ELSE [resolved |-> [blob |-> [size |-> blobSize,
                                  type |-> EncoderArgs(options).mimeType],
                        originalSize |-> originalSize,
                        compressedSize |-> blobSize,
                        compressionRatio |-> CompressionRatio(originalSize, blobSize)]]

Options(format, quality) ==
    [quality |-> quality, format |-> format, maintainAspectRatio |-> TRUE]

CompressImageCall(format, quality, originalSize, outcome, blobSize) ==
    /\ probe' = [fn |-> "compressImage",
                 options |-> Options(format, quality),
                 originalSize |-> originalSize,
                 outcome |-> outcome,
                 blobSize |-> blobSize,
                 encoder |-> EncoderArgs(Options(format, quality)),
                 result |-> CompressImage(Options(format, quality), originalSize,
                                          outcome, blobSize)]
    /\ lastOp' = "compressImage"
    /\ cropEvent' = NoEvent
    /\ UNCHANGED <<cropSettings, overlay, drag, gestures>>
    /\ UNCHANGED <<appVars, extVars>>

\* Two compressImage calls on the same image and format with two qualities.
CompressTwiceCall(format, quality1, quality2) ==
    /\ probe' = [fn |-> "compressImageTwice",
                 format |-> format,
                 quality1 |-> quality1,
                 quality2 |-> quality2,
                 encoder1 |-> EncoderArgs(Options(format, quality1)),
                 encoder2 |-> EncoderArgs(Options(format, quality2))]
    /\ lastOp' = "compressImageTwice"
    /\ cropEvent' = NoEvent
    /\ UNCHANGED <<cropSettings, overlay, drag, gestures>>
    /\ UNCHANGED <<appVars, extVars>>

(***************************************************************************)
(* FilterManager.applyFilters                                              *)
(***************************************************************************)
Fn(name, value, unit) == [fn |-> name, value |-> value, unit |-> unit]

\* The switch over options.filter.
PresetFunctions(filter) ==
    CASE filter = "grayscale" -> <<Fn("grayscale", 100, "%")>>
      [] filter = "sepia" -> <<Fn("sepia", 100, "%")>>
      [] filter = "vintage" ->
            <<Fn("sepia", 50, "%"), Fn("contrast", 120, "%"), Fn("brightness", 90, "%")>>
      [] filter = "cool" -> <<Fn("hue-rotate", 180, "deg"), Fn("saturate", 120, "%")>>
      [] filter = "warm" ->
            <<Fn("hue-rotate", 30, "deg"), Fn("saturate", 110, "%"), Fn("brightness", 110, "%")>>
      [] filter = "noir" ->
            <<Fn("grayscale", 100, "%"), Fn("contrast", 150, "%"), Fn("brightness", 80, "%")>>
      [] filter = "vivid" ->
            <<Fn("saturate", 150, "%"), Fn("contrast", 110, "%"), Fn("brightness", 105, "%")>>
      [] OTHER -> <<>>

PushIf(cond, fn) == IF cond THEN <<fn>> ELSE <<>>

\* The filters array that applyFilters joins and assigns to element.style.filter.
FilterChainPresetFirst(options) ==
    PresetFunctions(options.filter)
    \o PushIf(options.brightness # 100, Fn("brightness", options.brightness, "%"))
    \o PushIf(options.contrast # 100, Fn("contrast", options.contrast, "%"))
    \o PushIf(options.saturation # 100, Fn("saturate", options.saturation, "%"))
    \o PushIf(options.blur > 0, Fn("blur", options.blur, "px"))

FilterChain(options) ==
    PushIf(options.brightness # 100, Fn("brightness", options.brightness, "%"))
    \o PushIf(options.contrast # 100, Fn("contrast", options.contrast, "%"))
    \o PushIf(options.saturation # 100, Fn("saturate", options.saturation, "%"))
    \o PushIf(options.blur > 0, Fn("blur", options.blur, "px"))
    \o PresetFunctions(options.filter)

\* FilterOptions: percentages and pixels as numbers, the preset as a string.
PercentValues == {0, 100, 150}
BlurValues == {-1, 0, 5}
PresetNames ==
    {"none", "grayscale", "sepia", "vintage", "cool", "warm", "noir", "vivid", "foo"}

FilterOptionsSet ==
    [brightness : PercentValues, contrast : PercentValues, saturation : PercentValues,
     blur : BlurValues, filter : PresetNames]

ApplyFiltersCall(options) ==
    /\ probe' = [fn |-> "applyFilters", options |-> options, result |-> FilterChain(options)]
    /\ lastOp' = "applyFilters"
    /\ cropEvent' = NoEvent
    /\ UNCHANGED <<cropSettings, overlay, drag, gestures>>
    /\ UNCHANGED <<appVars, extVars>>

(***************************************************************************)
(* The stateless operations, each called on sampled arguments              *)
(***************************************************************************)
\* The operations keep no state, so each is called once from the initial state.
CallsNext ==
  /\ probe = NoProbe
  /\
    \/ \E type \in FileTypes, size \in FileSizes : ValidateCall([type |-> type, size |-> size])
    \/ \E format \in FormatStrings : GetFormatInfoCall(format)
    \/ \E format \in FormatStrings, quality \in Qualities, originalSize \in OriginalSizes,
          outcome \in EncoderOutcomes, blobSize \in BlobSizes :
            CompressImageCall(format, quality, originalSize, outcome, blobSize)
    \/ \E format \in FormatStrings, quality1 \in Qualities, quality2 \in Qualities :
            CompressTwiceCall(format, quality1, quality2)
    \/ \E options \in FilterOptionsSet : ApplyFiltersCall(options)

SpecCalls == Init /\ [][CallsNext]_vars

\* applyCrop called by a client that also sets the crop settings.
ApplyCropNext ==
    \/ \E p \in TogglePartials \cup SliderPartials \cup ExamplePartials : SetCropSettings(p)
    \/ \E source \in SourceSizes : ApplyCropCall(source)

SpecApplyCrop == Init /\ [][ApplyCropNext]_vars

(***************************************************************************)
(* Properties of the stateless operations                                  *)
(***************************************************************************)
\* C3: with enabled=false applyCrop returns a canvas of the source's natural
\* size holding the whole source; with enabled=true a canvas of size
\* (width/100*W) x (height/100*H) filled without scaling from the source
\* region whose top-left pixel is (x/100*W, y/100*H); croppedWidth and
\* croppedHeight equal the canvas dimensions.  (All in hundredths of a pixel.)
C3_ApplyCropResult ==
    probe.fn = "applyCrop" =>
        LET st == probe.settings
            W == probe.source.naturalWidth
            H == probe.source.naturalHeight
            r == probe.result
        IN  /\ ~st.enabled =>
                /\ r.canvas = [width |-> W, height |-> H]
                /\ r.drawn = [sx |-> 0, sy |-> 0, sw |-> W * 100, sh |-> H * 100,
                              dx |-> 0, dy |-> 0, dw |-> W * 100, dh |-> H * 100]
            /\ st.enabled =>
                /\ r.canvas.width * 100 = st.width * W
                /\ r.canvas.height * 100 = st.height * H
                /\ r.drawn.sx = st.x * W /\ r.drawn.sy = st.y * H
                /\ r.drawn.sw = st.width * W /\ r.drawn.sh = st.height * H
                /\ r.drawn.dx = 0 /\ r.drawn.dy = 0
                /\ r.drawn.dw = r.drawn.sw /\ r.drawn.dh = r.drawn.sh
            /\ r.croppedWidth = r.canvas.width * 100
            /\ r.croppedHeight = r.canvas.height * 100

C5_GetFormatInfo ==
    probe.fn = "getFormatInfo" =>
        IF probe.format \in {"jpeg", "png", "webp", "avif", "bmp", "tiff", "ico", "svg"}
        THEN probe.result = formatMap[probe.format]
        ELSE probe.result = [extension |-> "jpg", mimeType |-> "image/jpeg",
                             supportsQuality |-> TRUE, description |-> "Best for photos"]

\* C6: the encoder gets options.quality/100 when the format's descriptor has
\* supportsQuality=true; for png, bmp, tiff, ico and svg two requests that
\* differ only in options.quality hand the encoder the same MIME type and the
\* same quality.
C6_QualityOnlyWhenSupported ==
    /\ (probe.fn = "compressImage" /\ probe.options.format \in {"jpeg", "webp", "avif"}) =>
            probe.encoder = [mimeType |-> formatMap[probe.options.format].mimeType,
                             quality |-> probe.options.quality]
    /\ (probe.fn = "compressImageTwice"
            /\ probe.format \in {"png", "bmp", "tiff", "ico", "svg"}) =>
            /\ probe.encoder1 = probe.encoder2
            /\ probe.encoder1.mimeType = formatMap[probe.format].mimeType

\* Two PNG requests with different qualities reached the encoder.
C6_Witness ==
    /\ probe.fn = "compressImageTwice"
    /\ probe.format = "png"
    /\ probe.quality1 # probe.quality2
    /\ probe.encoder1 = probe.encoder2

\* C7: a resolved outcome has originalSize equal to the argument,
\* compressedSize equal to the blob's size, and compressionRatio =
\* (originalSize - compressedSize) / originalSize * 100: positive exactly when
\* the blob is smaller than the original, negative exactly when it is larger
\* (1000 and 750 give 25; 1000 and 1200 give -20).
C7_CompressionAccounting ==
    (probe.fn = "compressImage" /\ "resolved" \in DOMAIN probe.result) =>
        LET o == probe.result.resolved
            ratio == o.compressionRatio
        IN  /\ o.originalSize = probe.originalSize
            /\ o.compressedSize = probe.blobSize
            /\ o.compressedSize = o.blob.size
            /\ o.originalSize # 0 =>
                 /\ ratio[2] > 0
                 /\ ratio[1] * o.originalSize
                        = ratio[2] * (o.originalSize - o.compressedSize) * 100
            /\ ratio[1] > 0 <=> o.compressedSize < o.originalSize
            /\ ratio[1] < 0 <=> o.compressedSize > o.originalSize
            /\ (o.originalSize = 1000 /\ o.compressedSize = 750) => ratio = <<25, 1>>
            /\ (o.originalSize = 1000 /\ o.compressedSize = 1200) => ratio = <<-20, 1>>

\* An outcome whose blob is larger than the original was resolved.
C7_Witness ==
    /\ probe.fn = "compressImage"
    /\ "resolved" \in DOMAIN probe.result
    /\ probe.originalSize = 1000
    /\ probe.blobSize = 1200
    /\ probe.result.resolved.compressionRatio = <<-20, 1>>

\* The preset table of the filter compositor.
PresetTable(preset) ==
    CASE preset = "grayscale" -> <<Fn("grayscale", 100, "%")>>
      [] preset = "sepia" -> <<Fn("sepia", 100, "%")>>
      [] preset = "vintage" ->
            <<Fn("sepia", 50, "%"), Fn("contrast", 120, "%"), Fn("brightness", 90, "%")>>
      [] preset = "cool" -> <<Fn("hue-rotate", 180, "deg"), Fn("saturate", 120, "%")>>
      [] preset = "warm" ->
            <<Fn("hue-rotate", 30, "deg"), Fn("saturate", 110, "%"), Fn("brightness", 110, "%")>>
      [] preset = "noir" ->
            <<Fn("grayscale", 100, "%"), Fn("contrast", 150, "%"), Fn("brightness", 80, "%")>>
      [] preset = "vivid" ->
            <<Fn("saturate", 150, "%"), Fn("contrast", 110, "%"), Fn("brightness", 105, "%")>>
      [] OTHER -> <<>>

\* brightness, contrast, saturate, blur (each only when withX), then the preset.
ChainOf(o, withBlur) ==
    (IF o.brightness # 100 THEN <<Fn("brightness", o.brightness, "%")>> ELSE <<>>)
    \o (IF o.contrast # 100 THEN <<Fn("contrast", o.contrast, "%")>> ELSE <<>>)
    \o (IF o.saturation # 100 THEN <<Fn("saturate", o.saturation, "%")>> ELSE <<>>)
    \o (IF withBlur THEN <<Fn("blur", o.blur, "px")>> ELSE <<>>)
    \o PresetTable(o.filter)

\* C8 as stated: the chain is brightness(b%) if b differs from 100,
\* contrast(c%) if c differs from 100, saturate(s%) if s differs from 100,
\* blur(n px) if n differs from 0, then the functions of the named preset and
\* nothing for any other preset name.
C8_ChainBlurNonZero ==
    probe.fn = "applyFilters" =>
        probe.result = ChainOf(probe.options, probe.options.blur # 0)

\* C8 amended: as above, with blur(n px) in the chain exactly when n is
\* greater than 0.
C8_ChainBlurPositive ==
    probe.fn = "applyFilters" =>
        /\ probe.result = ChainOf(probe.options, probe.options.blur > 0)
        /\ (probe.options.brightness = 100 /\ probe.options.contrast = 100
                /\ probe.options.saturation = 100 /\ probe.options.blur = 0
                /\ probe.options.filter = "none") => probe.result = <<>>

\* All four adjustments were off their defaults and the vintage preset was on.
C8_Witness ==
    /\ probe.fn = "applyFilters"
    /\ probe.options = [brightness |-> 150, contrast |-> 0, saturation |-> 150,
                        blur |-> 5, filter |-> "vintage"]
    /\ probe.result = <<Fn("brightness", 150, "%"), Fn("contrast", 0, "%"),
                        Fn("saturate", 150, "%"), Fn("blur", 5, "px"),
                        Fn("sepia", 50, "%"), Fn("contrast", 120, "%"),
                        Fn("brightness", 90, "%")>>

(***************************************************************************)
(* ImageProcessor: the orchestrator                                        *)
(***************************************************************************)
\* Files the user uploads: a PNG that passes validation and a PDF that does not.
UploadFiles ==
    {[name |-> "photo.png", type |-> "image/png", size |-> 1000,
      image |-> [naturalWidth |-> 200, naturalHeight |-> 200]],
     [name |-> "paper.pdf", type |-> "application/pdf", size |-> 1000,
      image |-> [naturalWidth |-> 0, naturalHeight |-> 0]],
     [name |-> "huge.png", type |-> "image/png", size |-> maxFileSize + 1,
      image |-> [naturalWidth |-> 200, naturalHeight |-> 200]]}

\* The adjustment sliders the user moves, with the values given, and the
\* preset buttons pressed.
AdjustmentSliders == {"brightness", "contrast", "saturation", "blur"}
AdjustmentSamples(id) == IF id = "blur" THEN {0, 5} ELSE {100, 150}
FilterButtons == {"none", "vintage"}

\* The crop sliders the user moves, with values inside each slider's min..max.
CropSliders == {"cropLeft", "cropTop", "cropWidth", "cropHeight"}
CropSliderSamples(id) == IF id \in {"cropLeft", "cropTop"} THEN {0, 50} ELSE {10, 100}

\* Sizes of the blobs the encoder produces.
EncodedSizes == {750}

Toast(kind, message) == [kind |-> kind, message |-> message]

\* The image a data URL decodes to: the canvas it was made from.
ImageOf(canvas) == [naturalWidth |-> canvas.width, naturalHeight |-> canvas.height]

RemoveAt(queue, i) == SubSeq(queue, 1, i - 1) \o SubSeq(queue, i + 1, Len(queue))

\* updateCompression(container) up to its first await; the result is the queue
\* of invocations in flight.  With crop on, the invocation waits for the
\* cropped data URL to decode; otherwise compressImage is called at once and
\* reads this.currentFile.size.
UpdateCompressionSkipped(image, file, cropOn, settings, d, queue) == queue

UpdateCompressionWithFilter(image, file, cropOn, settings, d, queue) ==
    IF image = Null \/ file = Null THEN queue
    ELSE Append(queue, [stage |-> "encode",
                        quality |-> d.quality, format |-> d.activeFormat,
                        image |-> image,
                        originalSize |-> file.size,
                        filter |-> d.styleFilter])

UpdateCompression(image, file, cropOn, settings, d, queue) ==
    IF image = Null \/ file = Null THEN queue
    ELSE IF cropOn
    THEN Append(queue, [stage |-> "cropDecode",
                        quality |-> d.quality, format |-> d.activeFormat,
                        image |-> ImageOf(ApplyCrop(settings, image).canvas),
                        dataUrl |-> ApplyCrop(settings, image).dataUrl])
    ELSE Append(queue, [stage |-> "encode",
                        quality |-> d.quality, format |-> d.activeFormat,
                        image |-> image,
                        originalSize |-> file.size])

\* updateCrop(container): the crop settings, the overlay and the queue after it.
UpdateCrop(image, file, cropOn, settings, d, hasOverlay, queue) ==
    IF image = Null \/ ~cropOn
    THEN [cropSettings |-> settings, overlay |-> hasOverlay, pending |-> queue]
    ELSE LET merged == MergeSettings(settings,
                           [x |-> d.cropLeft, y |-> d.cropTop,
                            width |-> d.cropWidth, height |-> d.cropHeight,
                            enabled |-> TRUE])
         IN  [cropSettings |-> merged,
              overlay |-> merged.enabled,
              pending |-> UpdateCompression(image, file, cropOn, merged, d, queue)]

\* The FilterOptions that applyFilters(container) reads from the controls.
FilterOptionsOf(d) ==
    [brightness |-> d.brightness, contrast |-> d.contrast, saturation |-> d.saturation,
     blur |-> d.blur, filter |-> d.activeFilter]

----
\* The upload in progress after handleFileUpload validated the file: the
\* file is read only when the validation passed.
ReadDespiteRejection(file, current) == [stage |-> "reading", file |-> file]

AfterValidation(file, current) ==
    IF validateImageFile(file).valid
    THEN [stage |-> "reading", file |-> file]
    ELSE current

\* handleFileUpload(file, ...) up to its first await.  The upload area is
\* used while the upload section is not collapsed, that is while the image
\* section is hidden; a file that passes validation is submitted while no
\* other upload is in progress.
UploadFile(file) ==
    /\ upload = NoUpload \/ ~validateImageFile(file).valid
    /\ ~dom.imageSectionShown
    /\ upload' = AfterValidation(file, upload)
    /\ toast' = IF validateImageFile(file).valid
                THEN NoToast
                ELSE Toast("error", validateImageFile(file).error)
    /\ lastOp' = "handleFileUpload"
    /\ cropEvent' = NoEvent
    /\ probe' = [fn |-> "handleFileUpload", file |-> file]
    /\ UNCHANGED <<cropSettings, overlay, drag, gestures>>
    /\ UNCHANGED extVars
    /\ UNCHANGED <<currentImage, currentFile, compressionResult, isCropEnabled, dom,
                   pending, timers>>

\* fileHandler.loadImage(file) settles: previewImage.src and .onload are set,
\* which ends the wait of an imported image being decoded; or the catch block
\* shows the error.
FileRead(ok) ==
    /\ upload.stage = "reading"
    /\ IF ok
       THEN /\ upload' = [upload EXCEPT !.stage = "decoding"]
            /\ toast' = NoToast
       ELSE /\ upload' = NoUpload
            /\ toast' = Toast("error", "Error loading image. Please try again.")
    /\ lastOp' = "loadImage"
    /\ cropEvent' = NoEvent
    /\ probe' = [fn |-> "loadImage", file |-> upload.file, ok |-> ok]
    /\ context' = IF ok /\ context.stage = "decoding" THEN NoContext ELSE context
    /\ UNCHANGED <<cropSettings, overlay, drag, gestures>>
    /\ UNCHANGED bgVars
    /\ UNCHANGED <<currentImage, currentFile, compressionResult, isCropEnabled, dom,
                   pending, timers>>

\* previewImage.onload, or the image fails to decode and nothing is called.
ImageDecoded(ok) ==
    /\ upload.stage = "decoding"
    /\ IF ok
       THEN /\ currentImage' = upload.file.image
            /\ currentFile' = upload.file
            /\ upload' = [upload EXCEPT !.stage = "loaded"]
       ELSE /\ upload' = NoUpload
            /\ UNCHANGED <<currentImage, currentFile>>
    /\ toast' = NoToast
    /\ lastOp' = "previewImage.onload"
    /\ cropEvent' = NoEvent
    /\ probe' = [fn |-> "decode", file |-> upload.file, ok |-> ok]
    /\ UNCHANGED <<cropSettings, overlay, drag, gestures>>
    /\ UNCHANGED extVars
    /\ UNCHANGED <<compressionResult, isCropEnabled, dom, pending, timers>>

\* The 500 ms timer of previewImage.onload: the image section is shown and
\* the first compression starts.
LoadTimer ==
    /\ upload.stage = "loaded"
    /\ dom' = [dom EXCEPT !.imageSectionShown = TRUE]
    /\ pending' = UpdateCompression(currentImage, currentFile, isCropEnabled,
                                    cropSettings, dom', pending)
    /\ upload' = NoUpload
    /\ toast' = Toast("success", "Image loaded successfully!")
    /\ lastOp' = "loadTimer"
    /\ cropEvent' = NoEvent
    /\ probe' = NoProbe
    /\ UNCHANGED <<cropSettings, overlay, drag, gestures>>
    /\ UNCHANGED extVars
    /\ UNCHANGED <<currentImage, currentFile, compressionResult, isCropEnabled, timers>>

\* Click on #toggleCropBtn: toggleCrop(...).
ToggleCrop ==
    /\ dom.imageSectionShown
    /\ isCropEnabled' = ~isCropEnabled
    /\ dom' = [dom EXCEPT !.cropControlsShown = isCropEnabled']
    /\ IF isCropEnabled'
       THEN LET after == UpdateCrop(currentImage, currentFile, TRUE,
                                    MergeSettings(cropSettings, [enabled |-> TRUE]),
                                    dom', overlay, pending)
            IN  /\ cropSettings' = after.cropSettings
                /\ overlay' = after.overlay
                /\ pending' = after.pending
       ELSE /\ cropSettings' = MergeSettings(cropSettings, [enabled |-> FALSE])
            /\ overlay' = FALSE
            /\ pending' = UpdateCompression(currentImage, currentFile, FALSE,
                                            cropSettings', dom', pending)
    /\ toast' = NoToast
    /\ lastOp' = "toggleCrop"
    /\ cropEvent' = NoEvent
    /\ probe' = NoProbe
    /\ UNCHANGED <<drag, gestures>>
    /\ UNCHANGED extVars
    /\ UNCHANGED <<currentImage, currentFile, compressionResult, upload, timers>>

\* 'input' on one of the four crop sliders: updateCrop(container).
CropSliderInput(id, value) ==
    /\ dom.imageSectionShown
    /\ dom.cropControlsShown
    /\ dom' = [dom EXCEPT ![id] = value]
    /\ LET after == UpdateCrop(currentImage, currentFile, isCropEnabled, cropSettings,
                               dom', overlay, pending)
       IN  /\ cropSettings' = after.cropSettings
           /\ overlay' = after.overlay
           /\ pending' = after.pending
    /\ toast' = NoToast
    /\ lastOp' = "updateCrop"
    /\ cropEvent' = NoEvent
    /\ probe' = NoProbe
    /\ UNCHANGED <<drag, gestures>>
    /\ UNCHANGED extVars
    /\ UNCHANGED <<currentImage, currentFile, compressionResult, isCropEnabled, upload,
                   timers>>

\* applyFilters(container) on the controls d: the style of the preview image
\* and the number of timers after it.
ApplyFilters(d) ==
    IF currentImage = Null
    THEN /\ dom' = d
         /\ timers' = timers
    ELSE /\ dom' = [d EXCEPT !.styleFilter = FilterChain(FilterOptionsOf(d))]
         /\ timers' = timers + 1

\* 'input' on the brightness, contrast, saturation or blur slider.
AdjustmentInput(id, value) ==
    /\ dom.imageSectionShown
    /\ ApplyFilters([dom EXCEPT ![id] = value])
    /\ toast' = NoToast
    /\ lastOp' = "applyFilters"
    /\ cropEvent' = NoEvent
    /\ probe' = NoProbe
    /\ UNCHANGED <<cropSettings, overlay, drag, gestures>>
    /\ UNCHANGED extVars
    /\ UNCHANGED <<currentImage, currentFile, compressionResult, isCropEnabled, upload,
                   pending>>

\* Click on a preset filter button.
FilterButtonClick(filter) ==
    /\ dom.imageSectionShown
    /\ ApplyFilters([dom EXCEPT !.activeFilter = filter])
    /\ toast' = NoToast
    /\ lastOp' = "applyFilters"
    /\ cropEvent' = NoEvent
    /\ probe' = NoProbe
    /\ UNCHANGED <<cropSettings, overlay, drag, gestures>>
    /\ UNCHANGED extVars
    /\ UNCHANGED <<currentImage, currentFile, compressionResult, isCropEnabled, upload,
                   pending>>

\* A 100 ms timer set by applyFilters runs updateCompression(container).
TimerFires ==
    /\ timers > 0
    /\ timers' = timers - 1
    /\ pending' = UpdateCompression(currentImage, currentFile, isCropEnabled,
                                    cropSettings, dom, pending)
    /\ toast' = NoToast
    /\ lastOp' = "timer"
    /\ cropEvent' = NoEvent
    /\ probe' = NoProbe
    /\ UNCHANGED <<cropSettings, overlay, drag, gestures>>
    /\ UNCHANGED extVars
    /\ UNCHANGED <<currentImage, currentFile, compressionResult, isCropEnabled, dom, upload>>

\* Click on #newImageBtn: resetToUpload(uploadSection, imageSection).
ResetToUpload ==
    /\ dom.imageSectionShown
    /\ currentImage' = Null
    /\ currentFile' = Null
    /\ compressionResult' = Null
    /\ isCropEnabled' = FALSE
    /\ cropSettings' = ResetCropValue
    /\ dom' = [dom EXCEPT !.imageSectionShown = FALSE]
    /\ toast' = Toast("success", "Ready for new image!")
    /\ lastOp' = "resetToUpload"
    /\ cropEvent' = NoEvent
    /\ probe' = NoProbe
    /\ UNCHANGED <<overlay, drag, gestures>>
    /\ UNCHANGED extVars
    /\ UNCHANGED <<upload, pending, timers>>

\* tempImg.onload of the i-th invocation in flight: compressImage is called
\* with this.currentFile.size, which throws when the file is gone.
CropImageDecoded(i) ==
    /\ i \in 1..Len(pending)
    /\ pending[i].stage = "cropDecode"
    /\ pending[i].dataUrl # "data:,"
    /\ IF currentFile = Null
       THEN /\ pending' = RemoveAt(pending, i)
            /\ toast' = Toast("error", "Failed to compress image")
       ELSE /\ pending' = [pending EXCEPT ![i] =
                              [stage |-> "encode",
                               quality |-> pending[i].quality,
                               format |-> pending[i].format,
                               image |-> pending[i].image,
                               originalSize |-> currentFile.size]]
            /\ toast' = NoToast
    /\ lastOp' = "tempImg.onload"
    /\ cropEvent' = NoEvent
    /\ probe' = NoProbe
    /\ UNCHANGED <<cropSettings, overlay, drag, gestures>>
    /\ UNCHANGED extVars
    /\ UNCHANGED <<currentImage, currentFile, compressionResult, isCropEnabled, dom,
                   upload, timers>>

\* this.compressionResult after an invocation's compressImage settled: the
\* assignment of line 1133 is skipped when the await throws.
OutcomeClearedOnFailure(held, settled) ==
    IF "resolved" \in DOMAIN settled THEN settled.resolved ELSE Null

OutcomeKeptOnceHeld(held, settled) ==
    IF "resolved" \in DOMAIN settled /\ held = Null THEN settled.resolved ELSE held

OutcomeAfter(held, settled) ==
    IF "resolved" \in DOMAIN settled THEN settled.resolved ELSE held

\* compressImage of the i-th invocation in flight settles: the outcome is
\* stored, or the catch block shows the error.
CompressionSettles(i, outcome, blobSize) ==
    /\ i \in 1..Len(pending)
    /\ pending[i].stage = "encode"
    /\ LET settled == CompressImage(Options(pending[i].format, pending[i].quality),
                                    pending[i].originalSize, outcome, blobSize)
       IN  /\ compressionResult' = OutcomeAfter(compressionResult, settled)
           /\ toast' = IF "resolved" \in DOMAIN settled
                       THEN NoToast
                       ELSE Toast("error", "Failed to compress image")
    /\ pending' = RemoveAt(pending, i)
    /\ lastOp' = "compressImage"
    /\ cropEvent' = NoEvent
    /\ probe' = [fn |-> "updateCompression", request |-> pending[i], outcome |-> outcome,
                 blobSize |-> blobSize]
    /\ UNCHANGED <<cropSettings, overlay, drag, gestures>>
    /\ UNCHANGED extVars
    /\ UNCHANGED <<currentImage, currentFile, isCropEnabled, dom, upload, timers>>

\* Click on a format button.
FormatButtonClick(format) ==
    /\ dom.imageSectionShown
    /\ dom' = [dom EXCEPT !.activeFormat = format,
                          !.qualityDisabled = ~SupportsQuality(getFormatInfo(format))]
    /\ pending' = UpdateCompression(currentImage, currentFile, isCropEnabled,
                                    cropSettings, dom', pending)
    /\ toast' = NoToast
    /\ lastOp' = "formatButton"
    /\ cropEvent' = NoEvent
    /\ probe' = NoProbe
    /\ UNCHANGED <<cropSettings, overlay, drag, gestures>>
    /\ UNCHANGED extVars
    /\ UNCHANGED <<currentImage, currentFile, compressionResult, isCropEnabled, upload,
                   timers>>

\* 'input' on the quality slider, which a format without quality disables.
QualityInput(value) ==
    /\ dom.imageSectionShown
    /\ ~dom.qualityDisabled
    /\ dom' = [dom EXCEPT !.quality = value]
    /\ pending' = UpdateCompression(currentImage, currentFile, isCropEnabled,
                                    cropSettings, dom', pending)
    /\ toast' = NoToast
    /\ lastOp' = "qualityInput"
    /\ cropEvent' = NoEvent
    /\ probe' = NoProbe
    /\ UNCHANGED <<cropSettings, overlay, drag, gestures>>
    /\ UNCHANGED extVars
    /\ UNCHANGED <<currentImage, currentFile, compressionResult, isCropEnabled, upload,
                   timers>>

NoFile == [file |-> "none"]

\* formatInfo?.extension || 'jpg'
ExtensionOf(info) == IF "extension" \in DOMAIN info THEN info.extension ELSE "jpg"

\* The file downloadImage hands to the browser: the held blob under a name
\* with the active format's extension; NoFile when it returns early.
DownloadedFileUnguarded(result, d) ==
    [blob |-> IF result = Null THEN Null ELSE result.blob,
     extension |-> ExtensionOf(getFormatInfo(d.activeFormat))]

DownloadedFile(result, d) ==
    IF result = Null THEN NoFile
    ELSE [blob |-> result.blob,
          extension |-> ExtensionOf(getFormatInfo(d.activeFormat))]

\* Click on #downloadBtn: downloadImage(container).
DownloadImage ==
    /\ dom.imageSectionShown
    /\ probe' = [fn |-> "downloadImage", file |-> DownloadedFile(compressionResult, dom)]
    /\ toast' = IF probe'.file = NoFile
                THEN Toast("error", "No processed image to download")
                ELSE Toast("success", "Image downloaded!")
    /\ lastOp' = "downloadImage"
    /\ cropEvent' = NoEvent
    /\ UNCHANGED <<cropSettings, overlay, drag, gestures>>
    /\ UNCHANGED extVars
    /\ UNCHANGED <<currentImage, currentFile, compressionResult, isCropEnabled, dom, upload,
                   pending, timers>>

\* The controls after resetAll wrote the default of every slider and made
\* the Original and JPEG buttons the active ones; no listener runs.
DefaultControls(d) ==
    [d EXCEPT !.cropLeft = 0, !.cropTop = 0, !.cropWidth = 100, !.cropHeight = 100,
              !.brightness = 100, !.contrast = 100, !.saturation = 100, !.blur = 0,
              !.quality = 85, !.activeFilter = "none", !.activeFormat = "jpeg",
              !.styleFilter = <<>>]

\* Click on #resetBtn: resetAll(container).  With crop enabled it calls
\* toggleCrop, which disables crop and starts a compression; then it sets
\* the 100 ms timer.
ResetAll ==
    /\ dom.imageSectionShown
    /\ IF isCropEnabled
       THEN /\ isCropEnabled' = FALSE
            /\ cropSettings' = MergeSettings(cropSettings, [enabled |-> FALSE])
            /\ overlay' = FALSE
            /\ dom' = [DefaultControls(dom) EXCEPT !.cropControlsShown = FALSE]
            /\ pending' = UpdateCompression(currentImage, currentFile, FALSE,
                                            cropSettings', dom', pending)
       ELSE /\ dom' = DefaultControls(dom)
            /\ UNCHANGED <<isCropEnabled, cropSettings, overlay, pending>>
    /\ timers' = timers + 1
    /\ toast' = Toast("success", "All settings reset!")
    /\ lastOp' = "resetAll"
    /\ cropEvent' = NoEvent
    /\ probe' = NoProbe
    /\ UNCHANGED <<drag, gestures>>
    /\ UNCHANGED extVars
    /\ UNCHANGED <<currentImage, currentFile, compressionResult, upload>>

\* The exploration keeps at most maxPending compressions in flight and at
\* most maxTimers timers waiting.
InFlightWithin(maxPending, maxTimers) ==
    /\ Len(pending') <= maxPending
    /\ timers' <= maxTimers

Bounded == InFlightWithin(MaxPending, MaxTimers)

Next ==
    \/ \E file \in UploadFiles : UploadFile(file)
    \/ \E ok \in BOOLEAN : FileRead(ok)
    \/ \E ok \in BOOLEAN : ImageDecoded(ok)
    \/ LoadTimer /\ Bounded
    \/ ToggleCrop /\ Bounded
    \/ \E id \in CropSliders : \E value \in CropSliderSamples(id) :
            CropSliderInput(id, value) /\ Bounded
    \/ \E id \in AdjustmentSliders : \E value \in AdjustmentSamples(id) :
            AdjustmentInput(id, value) /\ Bounded
    \/ \E filter \in FilterButtons : FilterButtonClick(filter) /\ Bounded
    \/ TimerFires /\ Bounded
    \/ ResetToUpload
    \/ DownloadImage
    \/ \E i \in 1..Len(pending) : CropImageDecoded(i)
    \/ \E i \in 1..Len(pending), outcome \in EncoderOutcomes, blobSize \in EncodedSizes :
            CompressionSettles(i, outcome, blobSize)

\* The page driven by its user, its timers and the platform's callbacks.
Spec == Init /\ [][Next]_vars

\* The format buttons and the quality values the user picks.
FormatButtons == {"jpeg", "png"}
QualityInputs == {10, 85}

\* A session at the controls of the compression and download sections: one
\* crop slider, one adjustment slider, the style buttons, the format buttons,
\* the quality slider, Download and New Image.
SessionNext ==
    \/ \E file \in UploadFiles : UploadFile(file)
    \/ \E ok \in BOOLEAN : FileRead(ok)
    \/ \E ok \in BOOLEAN : ImageDecoded(ok)
    \/ LoadTimer /\ Bounded
    \/ ToggleCrop /\ Bounded
    \/ CropSliderInput("cropLeft", 50) /\ Bounded
    \/ \E value \in AdjustmentSamples("brightness") :
            AdjustmentInput("brightness", value) /\ Bounded
    \/ \E filter \in FilterButtons : FilterButtonClick(filter) /\ Bounded
    \/ TimerFires /\ Bounded
    \/ \E format \in FormatButtons : FormatButtonClick(format) /\ Bounded
    \/ \E value \in QualityInputs : QualityInput(value) /\ Bounded
    \/ ResetAll /\ Bounded
    \/ ResetToUpload
    \/ DownloadImage
    \/ \E i \in 1..Len(pending) : CropImageDecoded(i)
    \/ \E i \in 1..Len(pending), outcome \in EncoderOutcomes, blobSize \in EncodedSizes :
            CompressionSettles(i, outcome, blobSize)

SpecSession == Init /\ [][SessionNext]_vars


(***************************************************************************)
(* The popup opened by the extension: checkForContextImage and             *)
(* loadContextImage                                                        *)
(***************************************************************************)
\* Image payloads the content script hands over: a data URL with the
\* dimensions it reports and the number of bytes it decodes to.
ContextPayloads ==
    {[dataUrl |-> "data:image/png;base64,web", width |-> 200, height |-> 200,
      bytes |-> 900]}

\* What await chrome.runtime.sendMessage({action: 'getContextImage'}) gives:
\* the promise rejects, or resolves with undefined or with a reply.
Replies ==
    {[rejected |-> "Could not establish connection"],
     [undefined |-> TRUE],
     [success |-> FALSE, error |-> "No recent context image"],
     [success |-> TRUE]}
    \cup {[success |-> TRUE, imageData |-> p] : p \in ContextPayloads}

\* response && response.success && response.imageData
ReplyAccepted(reply) ==
    /\ "success" \in DOMAIN reply
    /\ reply.success
    /\ "imageData" \in DOMAIN reply

Asking == [stage |-> "asking"]

\* new File([blob], 'context-image.png', {type: 'image/png'})
ContextFile(imageData) ==
    [name |-> "context-image.png", type |-> "image/png", size |-> imageData.bytes,
     image |-> [naturalWidth |-> imageData.width, naturalHeight |-> imageData.height]]

\* Where checkForContextImage is after its await: the 500 ms timer is set
\* when the reply is accepted.
ContextAfterSuccess(reply) ==
    IF "success" \in DOMAIN reply /\ reply.success
    THEN [stage |-> "timer",
          imageData |-> IF "imageData" \in DOMAIN reply THEN reply.imageData ELSE Undefined]
    ELSE NoContext

ContextAfterReply(reply) ==
    IF ReplyAccepted(reply)
    THEN [stage |-> "timer", imageData |-> reply.imageData]
    ELSE NoContext

\* checkForContextImage after its await: the 500 ms timer is set when the
\* reply is accepted; otherwise nothing is done, a rejection is only logged.
ContextReply(reply) ==
    /\ context = Asking
    /\ context' = ContextAfterReply(reply)
    /\ toast' = NoToast
    /\ lastOp' = "checkForContextImage"
    /\ cropEvent' = NoEvent
    /\ probe' = [fn |-> "checkForContextImage", reply |-> reply]
    /\ UNCHANGED <<cropSettings, overlay, drag, gestures>>
    /\ UNCHANGED bgVars
    /\ UNCHANGED <<currentImage, currentFile, compressionResult, isCropEnabled, dom, upload,
                   pending, timers>>

\* The 500 ms timer: loadContextImage(imageData) up to await fetch.
ContextTimer ==
    /\ context.stage = "timer"
    /\ context' = [context EXCEPT !.stage = "fetching"]
    /\ toast' = NoToast
    /\ lastOp' = "loadContextImage"
    /\ cropEvent' = NoEvent
    /\ probe' = NoProbe
    /\ UNCHANGED <<cropSettings, overlay, drag, gestures>>
    /\ UNCHANGED bgVars
    /\ UNCHANGED <<currentImage, currentFile, compressionResult, isCropEnabled, dom, upload,
                   pending, timers>>

\* fetch(imageData.dataUrl) and response.blob() settle: previewImage.src and
\* .onload are set, which ends the wait of an upload being decoded; or the
\* catch block shows the error.
ContextFetched(ok) ==
    /\ context.stage = "fetching"
    /\ IF ok
       THEN /\ context' = [context EXCEPT !.stage = "decoding"]
            /\ upload' = IF upload.stage = "decoding" THEN NoUpload ELSE upload
            /\ toast' = NoToast
       ELSE /\ context' = NoContext
            /\ upload' = upload
            /\ toast' = Toast("error", "Failed to load imported image")
    /\ lastOp' = "fetch"
    /\ cropEvent' = NoEvent
    /\ probe' = [fn |-> "fetch", ok |-> ok]
    /\ UNCHANGED <<cropSettings, overlay, drag, gestures>>
    /\ UNCHANGED bgVars
    /\ UNCHANGED <<currentImage, currentFile, compressionResult, isCropEnabled, dom,
                   pending, timers>>

\* previewImage.onload of loadContextImage: the image section is shown at
\* once and the first compression starts; or the image fails to decode and
\* nothing is called.
ContextDecoded(ok) ==
    /\ context.stage = "decoding"
    /\ IF ok
       THEN /\ currentImage' = ContextFile(context.imageData).image
            /\ currentFile' = ContextFile(context.imageData)
            /\ dom' = [dom EXCEPT !.imageSectionShown = TRUE]
            /\ pending' = UpdateCompression(currentImage', currentFile', isCropEnabled,
                                            cropSettings, dom', pending)
            /\ toast' = Toast("success", "Image imported from webpage!")
       ELSE /\ toast' = NoToast
            /\ UNCHANGED <<currentImage, currentFile, dom, pending>>
    /\ context' = NoContext
    /\ lastOp' = "contextImage.onload"
    /\ cropEvent' = NoEvent
    /\ probe' = [fn |-> "decodeContext", ok |-> ok]
    /\ UNCHANGED <<cropSettings, overlay, drag, gestures>>
    /\ UNCHANGED bgVars
    /\ UNCHANGED <<compressionResult, isCropEnabled, upload, timers>>

\* The popup opened with or without chrome.runtime: with it,
\* checkForContextImage() has sent getContextImage and awaits the reply.
InitPopup == \E ctx \in {NoContext, Asking} : Constructed(ctx)

PopupNext ==
    \/ \E reply \in Replies : ContextReply(reply)
    \/ ContextTimer
    \/ \E ok \in BOOLEAN : ContextFetched(ok)
    \/ \E ok \in BOOLEAN : ContextDecoded(ok) /\ Bounded
    \/ \E file \in UploadFiles : UploadFile(file)
    \/ \E ok \in BOOLEAN : FileRead(ok)
    \/ \E ok \in BOOLEAN : ImageDecoded(ok)
    \/ LoadTimer /\ Bounded
    \/ ToggleCrop /\ Bounded
    \/ \E format \in FormatButtons : FormatButtonClick(format) /\ Bounded
    \/ ResetToUpload
    \/ DownloadImage
    \/ \E i \in 1..Len(pending) : CropImageDecoded(i)
    \/ \E i \in 1..Len(pending), outcome \in EncoderOutcomes, blobSize \in EncodedSizes :
            CompressionSettles(i, outcome, blobSize)

SpecPopup == InitPopup /\ [][PopupNext]_vars

\* What the platform does on its own: a message, a read, a fetch or a decode
\* in progress ends, a timer that was set fires however busy the page is,
\* and an encoder that delivers blobs delivers them.  The user is never
\* obliged to act.
PlatformFairness ==
    /\ WF_vars(\E ok \in BOOLEAN : FileRead(ok))
    /\ WF_vars(\E ok \in BOOLEAN : ImageDecoded(ok))
    /\ SF_vars(LoadTimer /\ Bounded)
    /\ SF_vars(TimerFires /\ Bounded)
    /\ WF_vars(\E i \in 1..Len(pending) : CropImageDecoded(i))
    /\ WF_vars(\E i \in 1..Len(pending), blobSize \in EncodedSizes :
                  CompressionSettles(i, "blob", blobSize))
    /\ WF_vars(\E reply \in Replies : ContextReply(reply))
    /\ WF_vars(ContextTimer)
    /\ WF_vars(\E ok \in BOOLEAN : ContextFetched(ok))
    /\ SF_vars(\E ok \in BOOLEAN : ContextDecoded(ok) /\ Bounded)

SpecSessionFair == SpecSession /\ PlatformFairness

\* Format and quality changed while earlier compressions are still in flight.
MaxOverlap == 2

Overlapping == InFlightWithin(MaxOverlap, MaxTimers)

OverlapNext ==
    \/ \E file \in UploadFiles : UploadFile(file)
    \/ \E ok \in BOOLEAN : FileRead(ok)
    \/ \E ok \in BOOLEAN : ImageDecoded(ok)
    \/ LoadTimer /\ Overlapping
    \/ \E format \in FormatButtons : FormatButtonClick(format) /\ Overlapping
    \/ \E value \in QualityInputs : QualityInput(value) /\ Overlapping
    \/ \E i \in 1..Len(pending), outcome \in EncoderOutcomes, blobSize \in EncodedSizes :
            CompressionSettles(i, outcome, blobSize)

SpecOverlap == Init /\ [][OverlapNext]_vars

SpecPopupFair == SpecPopup /\ PlatformFairness

\* The value a range input holds after an assignment to .value: the number
\* brought into the min..max of the markup.
SliderRange(id) ==
    IF id \in {"cropLeft", "cropTop"} THEN [min |-> 0, max |-> 50]
                                      ELSE [min |-> 10, max |-> 100]

RangeValue(id, value) == Max(SliderRange(id).min, Min(SliderRange(id).max, value))

\* mousemove on the document during a drag on the page: the CropManager
\* stores the new rectangle and dispatches cropUpdate, whose listener writes
\* the four sliders, rebuilds the overlay and calls updateCompression.
CropMouseMove(clientX, clientY) ==
    /\ drag.isDragging \/ drag.isResizing
    /\ cropSettings' = AfterMouseMove(cropSettings, drag, clientX, clientY)
    /\ cropEvent' = cropSettings'
    /\ dom' = [dom EXCEPT !.cropLeft = RangeValue("cropLeft", cropSettings'.x),
                          !.cropTop = RangeValue("cropTop", cropSettings'.y),
                          !.cropWidth = RangeValue("cropWidth", cropSettings'.width),
                          !.cropHeight = RangeValue("cropHeight", cropSettings'.height)]
    /\ overlay' = cropSettings'.enabled
    /\ pending' = UpdateCompression(currentImage, currentFile, isCropEnabled,
                                    cropSettings', dom', pending)
    /\ toast' = NoToast
    /\ lastOp' = "cropUpdate"
    /\ probe' = NoProbe
    /\ UNCHANGED <<drag, gestures>>
    /\ UNCHANGED extVars
    /\ UNCHANGED <<currentImage, currentFile, compressionResult, isCropEnabled, upload,
                   timers>>

\* The parts of the crop box grabbed and the slider inputs made in the
\* sessions below.
GrabbedParts == {"box", "nw"}
CropInputs == {<<"cropLeft", 50>>, <<"cropWidth", 10>>}

\* Pointer positions at the left and right edge of the preview.
SweepCoords == {cx \in ClientCoords : cx = 0 \/ cx = PreviewSize.offsetWidth}

\* The files of the upload samples that validateImageFile accepts.
AcceptedFiles == {file \in UploadFiles : validateImageFile(file).valid}

\* Every handler of the page that touches the crop state: the crop button,
\* the crop sliders, horizontal drags on the overlay, Reset, New Image, an
\* upload and an import from the context menu.
HandlersNext ==
    \/ \E reply \in Replies : ContextReply(reply)
    \/ ContextTimer
    \/ \E ok \in BOOLEAN : ContextFetched(ok)
    \/ \E ok \in BOOLEAN : ContextDecoded(ok) /\ Bounded
    \/ \E file \in AcceptedFiles : UploadFile(file)
    \/ \E ok \in BOOLEAN : FileRead(ok)
    \/ \E ok \in BOOLEAN : ImageDecoded(ok)
    \/ LoadTimer /\ Bounded
    \/ ToggleCrop /\ Bounded
    \/ \E input \in CropInputs : CropSliderInput(input[1], input[2]) /\ Bounded
    \/ \E target \in GrabbedParts : MouseDown(target)
    \/ \E cx \in SweepCoords : CropMouseMove(cx, DownPosition.clientY) /\ Bounded
    \/ MouseUp
    \/ ResetAll /\ Bounded
    \/ TimerFires /\ Bounded
    \/ ResetToUpload
    \/ \E i \in 1..Len(pending) : CropImageDecoded(i)
    \/ \E i \in 1..Len(pending), outcome \in EncoderOutcomes, blobSize \in EncodedSizes :
            CompressionSettles(i, outcome, blobSize)

SpecHandlers == InitPopup /\ [][HandlersNext]_vars

\* A small icon the user uploads: 10% of its 5 px is less than one pixel.
IconFiles ==
    {[name |-> "dot.png", type |-> "image/png", size |-> 100,
      image |-> [naturalWidth |-> 5, naturalHeight |-> 5]]}

\* A session that crops the icon with the Width slider.
IconNext ==
    \/ \E file \in IconFiles : UploadFile(file)
    \/ \E ok \in BOOLEAN : FileRead(ok)
    \/ \E ok \in BOOLEAN : ImageDecoded(ok)
    \/ LoadTimer /\ Bounded
    \/ ToggleCrop /\ Bounded
    \/ \E value \in CropSliderSamples("cropWidth") :
            CropSliderInput("cropWidth", value) /\ Bounded
    \/ \E format \in FormatButtons : FormatButtonClick(format) /\ Bounded
    \/ ResetToUpload
    \/ \E i \in 1..Len(pending) : CropImageDecoded(i)
    \/ \E i \in 1..Len(pending), outcome \in EncoderOutcomes, blobSize \in EncodedSizes :
            CompressionSettles(i, outcome, blobSize)

SpecIconFair == Init /\ [][IconNext]_vars /\ PlatformFairness

(***************************************************************************)
(* The background script: importImage and the getContextImage message      *)
(***************************************************************************)
MaxExchanges == 4

\* Only return image if it's recent (within 30 seconds).
TTL == 30000

\* The values of Date.now() at which the background script runs.
Instants == {0, 1, 29999, 30000, 30001}

\* response.imageData of the content script: a payload, or nothing.
ImportedData == ContextPayloads \cup {Undefined}

\* chrome.storage.local after set({contextImage, contextImageTimestamp}).
Stored(imageData, timestamp) ==
    [stored |-> TRUE, contextImage |-> imageData, contextImageTimestamp |-> timestamp]

\* result.contextImage && (now - timestamp) < 30000, on what get() returned.
Recent(result, now) ==
    /\ result.stored
    /\ result.contextImage # Undefined
    /\ now - result.contextImageTimestamp < TTL

\* The argument of sendResponse in the .then callback.
GetContextImageReply(result, now) ==
    IF Recent(result, now)
    THEN [success |-> TRUE, imageData |-> result.contextImage]
    ELSE [success |-> FALSE, error |-> "No recent context image"]

\* chrome.storage.local after the .then callback: the slot is removed when
\* the answer was a success.
StorageKeptAfterReply(current, reply) == current

StorageAfterReply(current, reply) ==
    IF reply.success THEN EmptyStorage ELSE current

\* Time passes to a later instant.
Tick(now) ==
    /\ now > clock
    /\ clock' = now
    /\ lastOp' = "tick"
    /\ probe' = NoProbe
    /\ cropEvent' = NoEvent
    /\ UNCHANGED <<storage, request, log, context>>
    /\ UNCHANGED <<cropSettings, overlay, drag, gestures>>
    /\ UNCHANGED appVars

\* importImage after the content script answered with success: the payload
\* and the time are stored.
ImportImage(imageData) ==
    /\ storage' = Stored(imageData, clock)
    /\ log' = Append(log, [op |-> "import", imageData |-> imageData])
    /\ lastOp' = "importImage"
    /\ probe' = NoProbe
    /\ cropEvent' = NoEvent
    /\ UNCHANGED <<clock, request, context>>
    /\ UNCHANGED <<cropSettings, overlay, drag, gestures>>
    /\ UNCHANGED appVars

\* handleMessage receives {action: 'getContextImage'} and calls
\* chrome.storage.local.get.
ReceiveGetContextImage ==
    /\ request = NoRequest
    /\ request' = [stage |-> "get"]
    /\ lastOp' = "handleMessage"
    /\ probe' = NoProbe
    /\ cropEvent' = NoEvent
    /\ UNCHANGED <<storage, clock, log, context>>
    /\ UNCHANGED <<cropSettings, overlay, drag, gestures>>
    /\ UNCHANGED appVars

\* chrome.storage.local.get settles: with the slot as it is now, or with an
\* error, which the .catch callback answers.
StorageGet(ok) ==
    /\ request.stage = "get"
    /\ IF ok
       THEN /\ request' = [stage |-> "then", result |-> storage]
            /\ log' = log
            /\ probe' = NoProbe
       ELSE /\ request' = NoRequest
            /\ log' = Append(log, [op |-> "answer",
                                   reply |-> [success |-> FALSE, error |-> "storage error"]])
            /\ probe' = [fn |-> "getContextImage", failed |-> TRUE,
                         reply |-> [success |-> FALSE, error |-> "storage error"]]
    /\ lastOp' = IF ok THEN "storage.get" ELSE "sendResponse"
    /\ cropEvent' = NoEvent
    /\ UNCHANGED <<storage, clock, context>>
    /\ UNCHANGED <<cropSettings, overlay, drag, gestures>>
    /\ UNCHANGED appVars

\* The .then callback: the answer is sent and, after a success, the slot is
\* removed.
AnswerGetContextImage ==
    /\ request.stage = "then"
    /\ LET reply == GetContextImageReply(request.result, clock)
       IN  /\ storage' = StorageAfterReply(storage, reply)
           /\ log' = Append(log, [op |-> "answer", reply |-> reply])
           /\ probe' = [fn |-> "getContextImage", failed |-> FALSE, reply |-> reply,
                        result |-> request.result, now |-> clock]
    /\ request' = NoRequest
    /\ lastOp' = "sendResponse"
    /\ cropEvent' = NoEvent
    /\ UNCHANGED <<clock, context>>
    /\ UNCHANGED <<cropSettings, overlay, drag, gestures>>
    /\ UNCHANGED appVars

\* The exploration follows MaxExchanges imports and answers.
Exchanged == Len(log') <= MaxExchanges

BackgroundNext ==
    \/ \E now \in Instants : Tick(now)
    \/ \E imageData \in ImportedData : ImportImage(imageData) /\ Exchanged
    \/ ReceiveGetContextImage /\ Len(log) < MaxExchanges
    \/ \E ok \in BOOLEAN : StorageGet(ok)
    \/ AnswerGetContextImage

SpecBackground == Init /\ [][BackgroundNext]_vars

(***************************************************************************)
(* Properties of the orchestrator                                          *)
(***************************************************************************)
\* C2: whenever updateCrop has just written the crop rectangle from the four
\* crop sliders (Left and Top in 0..50, Width and Height in 10..100) with
\* crop enabled and an image loaded, the rectangle satisfies x>=0, y>=0,
\* width>=10, height>=10, x+width<=100 and y+height<=100.
C2_SlidersKeepBounds ==
    (lastOp = "updateCrop" /\ isCropEnabled /\ currentImage # Null
        /\ dom.cropLeft \in 0..50 /\ dom.cropTop \in 0..50
        /\ dom.cropWidth \in 10..100 /\ dom.cropHeight \in 10..100)
        => ValidRect(cropSettings.x, cropSettings.y, cropSettings.width, cropSettings.height)

\* C10: immediately after resetToUpload there is no loaded image and no file,
\* no held compression outcome, the crop rectangle is {0, 0, 100, 100, false}
\* with crop disabled, and brightness, contrast, saturation, blur and the
\* preset filter are back at their neutral defaults.
C10_ResetToUploadDiscardsAll ==
    lastOp = "resetToUpload" =>
        /\ currentImage = Null
        /\ currentFile = Null
        /\ compressionResult = Null
        /\ cropSettings = [x |-> 0, y |-> 0, width |-> 100, height |-> 100, enabled |-> FALSE]
        /\ ~isCropEnabled
        /\ dom.brightness = 100
        /\ dom.contrast = 100
        /\ dom.saturation = 100
        /\ dom.blur = 0
        /\ dom.activeFilter = "none"

\* C11: Download produces a file only when a compression outcome is held,
\* and then the file carries the held blob; when none is held it shows an
\* error and produces nothing; in both cases the loaded image, the crop
\* rectangle, the crop-enabled flag and the held outcome are left unchanged.
C11_DownloadOnlyWithOutcome ==
    [][lastOp' = "downloadImage" =>
          /\ (probe'.file # NoFile) <=> (compressionResult # Null)
          /\ compressionResult = Null => toast'.kind = "error"
          /\ compressionResult # Null => probe'.file.blob = compressionResult.blob
          /\ UNCHANGED <<currentImage, cropSettings, isCropEnabled, compressionResult>>]_vars

\* A download that produced a file from a held outcome.
C11_Witness ==
    /\ lastOp = "downloadImage"
    /\ probe.file # NoFile
    /\ compressionResult # Null
    /\ currentImage # Null

\* C12: when a compression request fails (rendering context unavailable, the
\* encoder yields no blob, or reading the blob fails) updateCompression shows
\* an error notification and the previously held outcome is retained; the
\* loaded image and the crop rectangle are unchanged.
C12_FailedCompressionKeepsOutcome ==
    [][(lastOp' = "compressImage" /\ probe'.outcome \in {"noContext", "noBlob", "readError"}) =>
          /\ toast'.kind = "error"
          /\ UNCHANGED <<compressionResult, currentImage, cropSettings>>]_vars

\* A request failed while an outcome of an earlier request was held.
C12_Witness ==
    /\ lastOp = "compressImage"
    /\ probe.outcome = "noBlob"
    /\ toast.kind = "error"
    /\ compressionResult # Null
    /\ currentImage # Null

\* C13: when validateImageFile rejects an uploaded or dropped file,
\* handleFileUpload shows the validation error as a notification and halts:
\* the file is never read or decoded, no compression is triggered, and the
\* loaded image, the loaded file, the held compression outcome and the crop
\* rectangle are the same as before the upload attempt.
C13_RejectedUploadHalts ==
    [][(lastOp' = "handleFileUpload" /\ ~validateImageFile(probe'.file).valid) =>
          /\ toast' = Toast("error", validateImageFile(probe'.file).error)
          /\ UNCHANGED <<upload, pending, timers>>
          /\ UNCHANGED <<currentImage, currentFile, compressionResult, cropSettings>>]_vars

\* A file was rejected while an image was loaded.
C13_Witness ==
    /\ lastOp = "handleFileUpload"
    /\ probe.file.size > maxFileSize
    /\ toast = Toast("error", SizeError)
    /\ currentImage # Null
    /\ currentFile # Null

\* C14: every upload attempt that passes validation but then fails while
\* reading the file or while decoding the image is followed, sooner or later,
\* by an error notification.
C14_FailedUploadShowsError ==
    ((lastOp = "loadImage" /\ ~probe.ok) \/ (lastOp = "previewImage.onload" /\ ~probe.ok))
        ~> (toast.kind = "error")

\* The exchange failed: the send rejected, or the reply is missing, has
\* success=false or carries no imageData.
FailedReply(reply) ==
    \/ "rejected" \in DOMAIN reply
    \/ "undefined" \in DOMAIN reply
    \/ "imageData" \notin DOMAIN reply
    \/ ~reply.success

\* C15: when the getContextImage exchange fails (no extension runtime, the
\* send rejects, or the reply has success=false or no imageData), the popup
\* shows no notification, schedules no load, and changes neither the loaded
\* image nor the held compression outcome: opened without a runtime it is in
\* NoImage with no outcome and nothing in flight.
C15_FailedExchangeIsSilent ==
    /\ context = NoContext =>
          /\ toast = NoToast
          /\ currentImage = Null
          /\ compressionResult = Null
          /\ pending = <<>>
    /\ [][(lastOp' = "checkForContextImage" /\ FailedReply(probe'.reply)) =>
             /\ toast' = NoToast
             /\ context' = NoContext
             /\ UNCHANGED <<currentImage, currentFile, compressionResult>>
             /\ UNCHANGED <<dom, upload, pending, timers>>]_vars

\* A reply with success but without imageData was ignored, no image loaded.
C15_Witness ==
    /\ lastOp = "checkForContextImage"
    /\ probe.reply = [success |-> TRUE]
    /\ context = NoContext
    /\ currentImage = Null
    /\ compressionResult = Null

\* An answer of the log that carried a payload.
IsSuccess(entry) == entry.op = "answer" /\ entry.reply.success

\* C16: a getContextImage request is answered with success and the stored
\* payload only if the slot it read holds a payload stored less than 30000 ms
\* before the answer; otherwise it is answered with failure.  A successful
\* answer clears the slot, so of two successful answers the later one follows
\* a new import, whose payload or a later one it carries: a payload is
\* consumed at most once by sequential requests.
C16_ContextImageServedOnce ==
    /\ [][lastOp' = "sendResponse" =>
             IF probe'.failed THEN ~probe'.reply.success
             ELSE /\ probe'.reply.success <=>
                        /\ request.result.stored
                        /\ request.result.contextImage \in ContextPayloads
                        /\ clock - request.result.contextImageTimestamp < 30000
                  /\ probe'.reply.success =>
                        /\ probe'.reply.imageData = request.result.contextImage
                        /\ storage' = EmptyStorage]_vars
    /\ [](\A j \in 1..Len(log) : IsSuccess(log[j]) =>
             \E k \in 1..(j - 1) :
                 /\ log[k].op = "import"
                 /\ log[k].imageData = log[j].reply.imageData
                 /\ \A i \in (k + 1)..(j - 1) : ~IsSuccess(log[i]))

\* A payload was imported and returned to a request, and the request after
\* it, with no import in between, was answered with failure.
C16_Witness ==
    /\ Len(log) = 3
    /\ log[1].op = "import"
    /\ IsSuccess(log[2])
    /\ log[3].op = "answer"
    /\ ~log[3].reply.success
    /\ storage = EmptyStorage

\* C17: every step that changes the crop rectangle -- a slider input, enabling
\* or disabling crop, a body drag, a handle resize, a reset -- dispatches a
\* cropUpdate event whose payload is the full rectangle after the change.
C17_EveryMutationEmitsCropUpdate ==
    [][cropSettings' # cropSettings =>
          (cropEvent' # NoEvent /\ cropEvent' = cropSettings')]_vars

\* The file of the given size has just been loaded: its image decoded.
Loaded(size) ==
    \/ lastOp = "previewImage.onload" /\ probe.ok /\ probe.file.size = size
    \/ lastOp = "contextImage.onload" /\ probe.ok /\ size = currentFile.size

\* An outcome computed from a file of the given size is held.
HeldFor(size) ==
    /\ compressionResult # Null
    /\ compressionResult.originalSize = size

\* New Image was pressed, or the encoder did not deliver a blob.
GivenUp ==
    \/ lastOp = "resetToUpload"
    \/ lastOp = "compressImage" /\ probe.outcome # "blob"

\* Another file is the loaded one.
Replaced(size) ==
    /\ currentFile # Null
    /\ currentFile.size # size

\* C18, as stated: after a successful load (upload, drag-drop or context
\* import) a compression outcome for that image is eventually held with no
\* user action required, unless New Image is pressed or the encoder fails to
\* deliver a blob.
C18_LoadLeadsToOutcome ==
    \A size \in {900, 1000} : Loaded(size) ~> (HeldFor(size) \/ GivenUp)

\* C18, amended: after a successful load (upload, drag-drop or context
\* import) a compression outcome for that image is eventually held with no
\* user action required, unless New Image is pressed, the encoder fails to
\* deliver a blob, or another image is loaded in its place.
C18_LoadLeadsToOutcomeUnlessReplaced ==
    \A size \in {900, 1000} :
        Loaded(size) ~> (HeldFor(size) \/ GivenUp \/ Replaced(size))

\* The image imported from the page is loaded and the outcome of its first
\* compression is held.
C18_Witness ==
    /\ currentFile # Null
    /\ currentFile.name = "context-image.png"
    /\ HeldFor(currentFile.size)
    /\ lastOp = "compressImage"
    /\ pending = <<>>

\* Two adjustment states: the neutral one and one with every control moved.
AdjustmentStates ==
    {[brightness |-> 100, contrast |-> 100, saturation |-> 100, blur |-> 0,
      activeFilter |-> "none"],
     [brightness |-> 150, contrast |-> 50, saturation |-> 0, blur |-> 5,
      activeFilter |-> "vintage"]}

\* The controls d with the adjustment controls, and the style they give the
\* preview, replaced by those of a.
WithAdjustments(d, a) ==
    LET moved == [d EXCEPT !.brightness = a.brightness, !.contrast = a.contrast,
                           !.saturation = a.saturation, !.blur = a.blur,
                           !.activeFilter = a.activeFilter]
    IN  [moved EXCEPT !.styleFilter = FilterChain(FilterOptionsOf(moved))]

\* C19: the adjustment state never influences the compressed bytes.  Every
\* compression request issued is the one that would have been issued with
\* any other brightness, contrast, saturation, blur and preset; a change of
\* an adjustment leaves the image, the file, the crop, the format, the
\* quality, the requests in flight and the held outcome as they are; and the
\* outcome stored for a request is determined by the request and the encoder.
C19_AdjustmentsDoNotInfluenceCompression ==
    [][/\ Len(pending') > Len(pending) =>
              \A a \in AdjustmentStates :
                  pending' = UpdateCompression(currentImage', currentFile', isCropEnabled',
                                               cropSettings', WithAdjustments(dom', a),
                                               pending)
       /\ lastOp' = "applyFilters" =>
              /\ UNCHANGED <<currentImage, currentFile, cropSettings, isCropEnabled>>
              /\ UNCHANGED <<pending, compressionResult>>
              /\ dom'.quality = dom.quality
              /\ dom'.activeFormat = dom.activeFormat
       /\ (lastOp' = "compressImage" /\ probe'.outcome = "blob") =>
              /\ compressionResult'.blob.type = MimeTypeOf(getFormatInfo(probe'.request.format))
              /\ compressionResult'.blob.size = probe'.blobSize
              /\ compressionResult'.originalSize = probe'.request.originalSize]_vars

\* A compression was requested by the timer of applyFilters while the
\* brightness and the preset were away from neutral.
C19_Witness ==
    /\ lastOp = "timer"
    /\ Len(pending) > 0
    /\ dom.brightness # 100
    /\ dom.activeFilter # "none"
    /\ dom.styleFilter # <<>>

\* The result of a request: what the encoder made of its format, for its
\* original size.
ResultOf(req, blobSize) ==
    [blob |-> [size |-> blobSize, type |-> MimeTypeOf(getFormatInfo(req.format))],
     originalSize |-> req.originalSize,
     compressedSize |-> blobSize,
     compressionRatio |-> CompressionRatio(req.originalSize, blobSize)]

\* C20: the orchestrator holds one compression outcome at most, and each
\* successfully completed request replaces it with its own result, whatever
\* was held and whichever requests were issued before or after it: when
\* requests overlap, the outcome held after the last completion is the result
\* of the request that completed last.
C20_LastCompletionWins ==
    [][(lastOp' = "compressImage" /\ probe'.outcome = "blob") =>
          /\ compressionResult' = ResultOf(probe'.request, probe'.blobSize)
          /\ Len(pending') = Len(pending) - 1]_vars

\* Of two overlapping requests, for jpeg and then for png, the jpeg one
\* completed last: its result is held although png is the active format.
C20_Witness ==
    /\ lastOp = "compressImage"
    /\ probe.outcome = "blob"
    /\ probe.request.format = "jpeg"
    /\ dom.activeFormat = "png"
    /\ pending = <<>>
    /\ compressionResult # Null
    /\ compressionResult.blob.type = "image/jpeg"

\* C21: right after the Reset action (resetAll) with an image loaded, the
\* crop rectangle held by the CropManager is exactly
\* {x: 0, y: 0, width: 100, height: 100, enabled: false}.
C21_ResetAllRestoresCrop ==
    (lastOp = "resetAll" /\ currentImage # Null) =>
        cropSettings = [x |-> 0, y |-> 0, width |-> 100, height |-> 100, enabled |-> FALSE]

\* A resize with the given handle alone is in progress.
ResizingWith(handle) ==
    /\ drag.isResizing
    /\ ~drag.isDragging
    /\ drag.currentHandle = handle

\* C22: during a resize with the nw handle that started from a valid
\* rectangle, after every pointer-move update x+width and y+height equal
\* their values at pointer-down: the bottom-right corner stays in place.
C22_NwKeepsBottomRight ==
    (lastOp = "mousemove" /\ ResizingWith("nw") /\ StartedValid) =>
        /\ cropSettings.x + cropSettings.width = drag.startCropX + drag.startCropWidth
        /\ cropSettings.y + cropSettings.height = drag.startCropY + drag.startCropHeight

\* C23: during a resize with the se handle that started from a valid
\* rectangle, every pointer-move update leaves x and y as they are and stores
\* a size with 10 <= width <= 100 - x and 10 <= height <= 100 - y.
C23_SeKeepsTopLeft ==
    [][(lastOp' = "mousemove" /\ ResizingWith("se") /\ StartedValid) =>
          /\ cropSettings'.x = cropSettings.x
          /\ cropSettings'.y = cropSettings.y
          /\ cropSettings'.width >= 10
          /\ cropSettings'.width <= 100 - cropSettings'.x
          /\ cropSettings'.height >= 10
          /\ cropSettings'.height <= 100 - cropSettings'.y]_vars

\* The se handle was pulled from a rectangle with x = 50 beyond the right
\* edge of the image: the width stopped at 100 - x.
C23_Witness ==
    /\ lastOp = "mousemove"
    /\ ResizingWith("se")
    /\ StartedValid
    /\ cropSettings.x = 50
    /\ cropSettings.width = 50
    /\ drag.startCropWidth + 50 > 100 - cropSettings.x

\* The rectangle held at pointer-down.
RectAtPointerDown ==
    [x |-> drag.startCropX, y |-> drag.startCropY,
     width |-> drag.startCropWidth, height |-> drag.startCropHeight,
     enabled |-> cropSettings.enabled]

\* C30: during one drag that started from a valid rectangle, whatever
\* pointer positions were visited so far, a pointer-move to any position
\* stores the rectangle that the same move would store right after
\* pointer-down; and a move back to the pointer-down position restores the
\* rectangle held at pointer-down.
C30_DragIsPathIndependent ==
    (PointerDown /\ StartedValid) =>
        /\ \A cx \in ClientCoords, cy \in ClientCoords :
               AfterMouseMove(cropSettings, drag, cx, cy)
                   = AfterMouseMove(RectAtPointerDown, drag, cx, cy)
        /\ AfterMouseMove(cropSettings, drag, DownPosition.clientX, DownPosition.clientY)
               = RectAtPointerDown

\* In the middle of a body drag the box has left its pointer-down position.
C30_Witness ==
    /\ lastOp = "mousemove"
    /\ drag.isDragging
    /\ StartedValid
    /\ cropSettings.x # drag.startCropX
    /\ cropSettings.y # drag.startCropY

\* C24: after the page handled a cropUpdate notification, the Left, Top,
\* Width and Height sliders hold the rectangle's x, y, width and height.
C24_SlidersEqualRectangleAfterCropUpdate ==
    lastOp = "cropUpdate" =>
        /\ dom.cropLeft = cropSettings.x
        /\ dom.cropTop = cropSettings.y
        /\ dom.cropWidth = cropSettings.width
        /\ dom.cropHeight = cropSettings.height

\* C26: after every completed handler of the page (crop button, crop slider
\* input, drag update, Reset, New Image, upload, context import and the
\* callbacks they start) isCropEnabled equals the enabled field of the
\* rectangle held by the CropManager.
C26_CropFlagMatchesRectangle == isCropEnabled = cropSettings.enabled

\* A drag update handled while cropping is on, after the box was moved.
C26_Witness ==
    /\ lastOp = "cropUpdate"
    /\ isCropEnabled
    /\ cropSettings.enabled
    /\ cropSettings.x # drag.startCropX

\* C25: every updateCompression invocation that started with an image
\* loaded eventually finishes, by storing an outcome or by showing 'Failed to
\* compress image': the invocation in flight (these sessions keep at most
\* one) eventually leaves the queue, which only those two endings do.
C25_CompressionEventuallyFinishes == (pending # <<>>) ~> (pending = <<>>)

\* C27: whenever Download produces a file, its extension is the catalog
\* extension of the format whose MIME type the held blob was encoded with.
C27_DownloadExtensionMatchesBlob ==
    (lastOp = "downloadImage" /\ probe.file # NoFile) =>
        \E format \in DOMAIN formatMap :
            /\ formatMap[format].mimeType = probe.file.blob.type
            /\ formatMap[format].extension = probe.file.extension

\* C28: while no image is loaded (from New Image until the next image has
\* finished loading) no compression outcome is held.
C28_NoOutcomeWithoutImage == currentImage = Null => compressionResult = Null

\* C29: the clearing step of a served getContextImage request removes only
\* what this request returned: whenever a stored payload leaves the slot,
\* the step is the answer of a request, the answer is a success, and the
\* slot removed (payload and timestamp) is the one the request read and
\* returned.
C29_ClearingRemovesOnlyWhatWasReturned ==
    [][(storage.stored /\ storage.contextImage # Undefined /\ ~storage'.stored) =>
          /\ lastOp' = "sendResponse"
          /\ probe'.reply.success
          /\ probe'.reply.imageData = storage.contextImage
          /\ probe'.result = storage]_vars

====
